---- MODULE Spec2Model ----
(***************************************************************************)
(* The middleware pipeline of platform-api: the router built in main       *)
(* (gin.Default, then ErrorHandlerMiddleware, then                         *)
(* requestLoggingMiddleware, then the route handler), run one request at a *)
(* time on one gin.Context.  A route handler is any sequence of at most    *)
(* MaxHandlerSteps calls among c.JSON, c.Error and panic.                  *)
(***************************************************************************)
EXTENDS Integers, Sequences, FiniteSets, TLC

\* ---------------------------------------------------------------- bounds
MaxRequests == 3
MaxHandlerSteps == 2

\* ------------------------------------------------------ program constants
StatusOK == 200
StatusBadRequest == 400
StatusUnauthorized == 401
StatusNotFound == 404
StatusConflict == 409
StatusInternalServerError == 500

\* Strings the handlers pass to the factories (the empty string included).
Strs == {"", "widget"}
\* Values of the inbound X-Trace-ID header; "" is what c.GetHeader returns
\* when the header is absent or empty.
TraceHeaders == {"", "abc123", "xyz789"}
\* Results of randomString(16).
GeneratedIDs == {"aaaaaaaaaaaaaaaa", "aaaaaaaabbbbbbbb"}
\* Texts of errors that are not AppErrors.
PlainTexts == {"dial tcp: refused", "pq: password rejected"}
\* Status codes the route handlers write with c.JSON.
HandlerStatuses == {200, 201}

\* ------------------------------------------------------------- AppError
\* Details is a set of <<key, value>> pairs; Err is the cause's text, NilErr
\* when the cause is nil.
NilErr == "<nil>"
NoDetails == {}

NewValidationError(field, reason) ==
    [Code |-> "VALIDATION_ERROR", Message |-> "Invalid request: " \o reason,
     StatusCode |-> StatusBadRequest, Details |-> {<<"field", field>>},
     Err |-> NilErr]

NewNotFoundError(resource) ==
    [Code |-> "NOT_FOUND", Message |-> resource \o " not found",
     StatusCode |-> StatusNotFound, Details |-> NoDetails, Err |-> NilErr]

NewConflictError(reason) ==
    [Code |-> "CONFLICT", Message |-> reason,
     StatusCode |-> StatusConflict, Details |-> NoDetails, Err |-> NilErr]

NewInternalError(err) ==
    [Code |-> "INTERNAL_ERROR", Message |-> "An internal error occurred",
     StatusCode |-> StatusInternalServerError, Details |-> NoDetails,
     Err |-> err]

NewUnauthorizedError(reason) ==
    [Code |-> "UNAUTHORIZED", Message |-> reason,
     StatusCode |-> StatusUnauthorized, Details |-> NoDetails, Err |-> NilErr]

\* Every AppError a factory returns on the modelled arguments.
FactoryErrors ==
    {NewValidationError(f, r) : f \in Strs, r \in Strs}
      \cup {NewNotFoundError(s) : s \in Strs}
      \cup {NewConflictError(s) : s \in Strs}
      \cup {NewUnauthorizedError(s) : s \in Strs}
      \cup {NewInternalError(e) : e \in {NilErr} \cup PlainTexts}

\* The value a nil *AppError points to: none.
NilAppError ==
    [Code |-> "", Message |-> "", StatusCode |-> 0, Details |-> NoDetails,
     Err |-> NilErr]

\* ------------------------------------------------- errors given to c.Error
\* kind "app":    an *AppError
\* kind "nilapp": a nil *AppError held in a non-nil error interface
\* kind "wrap":   an error whose Unwrap chain holds an *AppError
\* kind "plain":  any other error
AppErr(a) == [kind |-> "app", text |-> a.Message, app |-> a]
NilAppErr == [kind |-> "nilapp", text |-> "", app |-> NilAppError]
WrapErr(t, a) == [kind |-> "wrap", text |-> t \o ": " \o a.Message, app |-> a]
PlainErr(t) == [kind |-> "plain", text |-> t, app |-> NilAppError]

RecordedErrors ==
    {AppErr(a) : a \in FactoryErrors}
      \cup {NilAppErr}
      \cup {WrapErr("lookup", NewNotFoundError("widget"))}
      \cup {PlainErr(t) : t \in PlainTexts}

\* errors.As(err, &appErr): whether the chain of err holds an *AppError.
ErrorsAs(e) == e.kind \in {"app", "nilapp", "wrap"}
\* The pointer errors.As stores is nil for a nil *AppError.
IsNilPointer(e) == e.kind = "nilapp"

\* ------------------------------------------------------ the router's chain
\* gin.Default() is gin.New() with gin.Logger() and gin.Recovery() in use.
GinDefault == <<"gin.Logger", "gin.Recovery">>
Use(chain, h) == Append(chain, h)
Router ==
    Use(Use(GinDefault, "ErrorHandlerMiddleware"), "requestLoggingMiddleware")
\* router.GET(path, handler): the group's middlewares, then the handler.
HandlersChain == Append(Router, "handler")

\* ------------------------------------------------------- response writer
\* w.status is gin's record of the status; w.sentStatus and w.sentTrace are
\* the status line and the X-Trace-ID header that went on the wire (0 and ""
\* before the header is flushed); w.body is the documents written, in order.
NewWriter ==
    [status |-> StatusOK, written |-> FALSE, sentStatus |-> 0,
     sentTrace |-> "", body |-> << >>]

\* responseWriter.WriteHeader: a status set after the header went out is
\* dropped.
WriteHeader(w, code) ==
    IF code > 0 /\ w.status # code /\ ~w.written
    THEN [w EXCEPT !.status = code]
    ELSE w

\* responseWriter.WriteHeaderNow: flushes status line and headers once.
WriteHeaderNow(w, hdr) ==
    IF w.written
    THEN w
    ELSE [w EXCEPT !.written = TRUE, !.sentStatus = w.status, !.sentTrace = hdr]

\* responseWriter.Write
Write(w, hdr, doc) ==
    [WriteHeaderNow(w, hdr) EXCEPT !.body = Append(@, doc)]

\* c.JSON(code, obj): c.Status(code), then the encoded obj is written.
JSON(w, hdr, code, doc) == Write(WriteHeader(w, code), hdr, doc)

\* ------------------------------------------------------------ documents
\* ErrorResponse as encoded: traceId "" and details {} are omitted, which the
\* model writes as the same "" and {}.
ErrorResponse(code, message, status, traceId, details) ==
    [kind |-> "envelope", error |-> code, message |-> message,
     statusCode |-> status, traceId |-> traceId, details |-> details]

\* The gin.H a route handler writes.
HandlerDoc(status) ==
    [kind |-> "data", error |-> "", message |-> "", statusCode |-> status,
     traceId |-> "", details |-> NoDetails]

\* ---------------------------------------------------------------- state
VARIABLES
    pc,            \* "idle" before the first request, "run" while the chain
                   \* runs, "done" once the response is complete
    served,        \* requests completed by the process
    pastFaults,    \* where the panics of the process so far were raised
    reqHeader,     \* the request's X-Trace-ID header ("" when absent)
    index,         \* how many handlers of the chain have been entered
    stack,         \* the handlers entered and not yet left, outermost first
    steps,         \* calls made by the route handler
    keys,          \* c.Keys["traceId"]
    errors,        \* c.Errors
    respTrace,     \* c.Writer.Header()["X-Trace-ID"] ("" when unset)
    w,             \* c.Writer
    traceID,       \* requestLoggingMiddleware's local traceID
    panicking,     \* the value of the panic being unwound, NoPanic if none
    fault,         \* where the request's panic was raised: "none",
                   \* "handler" or "handleError"
    reqLog,        \* the slog records emitted for the request, in order
    stage,         \* main's position: "start", "loaded", "ready"
    env,           \* the environment's LOG_LEVEL and LOG_FORMAT ("" if unset)
    cfg,           \* cfg.Observability's LogLevel and LogFormat
    logger,        \* slog's default logger: minimum level, encoding, stream
    sink           \* the severities of the records the logger has written

bootVars == <<stage, env, cfg, logger, sink>>

requestVars ==
    <<pc, served, pastFaults, reqHeader, index, stack, steps, keys, errors,
      respTrace, w, traceID, panicking, fault, reqLog>>

vars == <<requestVars, bootVars>>

\* ------------------------------------------------- configuration, logger
\* Values of the LOG_LEVEL and LOG_FORMAT environment variables; "" is what
\* os.Getenv returns for an unset variable.
EnvLevels == {"", "debug", "info", "warn", "error", "WARN"}
EnvFormats == {"", "json", "text", "console"}

getEnvString(val, defaultValue) == IF val # "" THEN val ELSE defaultValue

\* config.Load(), the Observability part.
Load(e) ==
    [LogLevel |-> getEnvString(e.LOG_LEVEL, "info"),
     LogFormat |-> getEnvString(e.LOG_FORMAT, "json")]

\* slog's severities, in order.
Severities == {"DEBUG", "INFO", "WARN", "ERROR"}
LevelRank(l) ==
    CASE l = "DEBUG" -> 0 - 4
      [] l = "INFO" -> 0
      [] l = "WARN" -> 4
      [] l = "ERROR" -> 8

\* The logger slog starts with.
DefaultLogger == [level |-> "INFO", encoding |-> "default", out |-> "stderr"]

\* setupLogger(level, format): the logger given to slog.SetDefault.
setupLogger(level, format) ==
    [level |-> CASE level = "debug" -> "DEBUG"
                 [] level = "info" -> "INFO"
                 [] level = "error" -> "ERROR"
                 [] OTHER -> "INFO",
     encoding |-> IF format = "json" THEN "json" ELSE "text",
     out |-> IF format = "json" THEN "stderr" ELSE "stdout"]

\* Handler.Enabled: a record is written when its severity is at least the
\* logger's minimum level.
Enabled(lg, severity) == LevelRank(severity) >= LevelRank(lg.level)

\* The environment with neither variable set.
NoEnv == [LOG_LEVEL |-> "", LOG_FORMAT |-> ""]

NoPanic == "<none>"
NoKey == [set |-> FALSE, type |-> "", val |-> ""]
StringKey(v) == [set |-> TRUE, type |-> "string", val |-> v]

Last(s) == s[Len(s)]
Top == IF stack = << >> THEN "<server>" ELSE Last(stack)
Pop(s) == SubSeq(s, 1, Len(s) - 1)

\* ------------------------------------------------------ getTraceID
\* traceID.(string) panics when the stored value is not a string.
TraceIDAssertionFails(k) == k.set /\ k.type # "string"
getTraceID(k) == IF k.set THEN k.val ELSE ""

\* ------------------------------------------------------ handleError
\* appErr.Code is read through a nil pointer, or getTraceID panics.
handleErrorPanics(errs, k) ==
    \/ ErrorsAs(Last(errs)) /\ IsNilPointer(Last(errs))
    \/ TraceIDAssertionFails(k)

handleErrorLog(errs) ==
    IF ErrorsAs(Last(errs))
    THEN [msg |-> "application error", level |-> "WARN",
          status |-> Last(errs).app.StatusCode, trace_id |-> "",
          text |-> Last(errs).app.Message]
    ELSE [msg |-> "unknown error", level |-> "ERROR", status |-> 0,
          trace_id |-> "", text |-> Last(errs).text]

handleErrorResponse(errs, k) ==
    IF ErrorsAs(Last(errs))
    THEN ErrorResponse(Last(errs).app.Code, Last(errs).app.Message,
                       Last(errs).app.StatusCode, getTraceID(k),
                       Last(errs).app.Details)
    ELSE ErrorResponse("INTERNAL_ERROR", "An unexpected error occurred",
                       StatusInternalServerError, getTraceID(k), NoDetails)

handleError(wr, hdr, errs, k) ==
    JSON(wr, hdr, handleErrorResponse(errs, k).statusCode,
         handleErrorResponse(errs, k))

\* The envelope of the deferred recovery.
RecoveryResponse(k) ==
    ErrorResponse("INTERNAL_ERROR", "An unexpected error occurred",
                  StatusInternalServerError, getTraceID(k), NoDetails)

\* ------------------------------------------ requestLoggingMiddleware
\* A trace ID that is generated whatever the request carries.
TraceIDForFresh(hdr, gen) == gen

\* traceID := c.GetHeader("X-Trace-ID"); if traceID == "" { randomString }
TraceIDFor(hdr, gen) == IF hdr = "" THEN gen ELSE hdr

RequestRecord(status, tid) ==
    [msg |-> "HTTP request", level |-> "INFO", status |-> status,
     trace_id |-> tid, text |-> ""]

\* ----------------------------------------------------------------- Init
Init ==
    /\ pc = "idle"
    /\ served = 0
    /\ pastFaults = {}
    /\ reqHeader = ""
    /\ index = 0
    /\ stack = << >>
    /\ steps = 0
    /\ keys = NoKey
    /\ errors = << >>
    /\ respTrace = ""
    /\ w = NewWriter
    /\ traceID = ""
    /\ panicking = NoPanic
    /\ fault = "none"
    /\ reqLog = << >>
    /\ stage = "ready"
    /\ env = NoEnv
    /\ cfg = Load(NoEnv)
    /\ logger = setupLogger(Load(NoEnv).LogLevel, Load(NoEnv).LogFormat)
    /\ sink = {}

\* --------------------------------------------------------------- actions
\* The server takes a request: engine.ServeHTTP resets the pooled context
\* and its writer, then runs the chain from its first handler.
Accept ==
    /\ pc # "run"
    /\ served < MaxRequests
    /\ \E hdr \in TraceHeaders : reqHeader' = hdr
    /\ pc' = "run"
    /\ index' = 0
    /\ stack' = << >>
    /\ steps' = 0
    /\ keys' = NoKey
    /\ errors' = << >>
    /\ respTrace' = ""
    /\ w' = NewWriter
    /\ traceID' = ""
    /\ panicking' = NoPanic
    /\ fault' = "none"
    /\ reqLog' = << >>
    /\ UNCHANGED <<bootVars, served, pastFaults>>

\* c.Next() is about to call handler `name`: every handler entered so far is
\* waiting in its own c.Next().
Calling(name) ==
    /\ pc = "run"
    /\ panicking = NoPanic
    /\ Len(stack) = index
    /\ index < Len(HandlersChain)
    /\ HandlersChain[index + 1] = name

\* Handler `name` is the innermost one and the call it made has returned.
Returned(name) ==
    /\ pc = "run"
    /\ panicking = NoPanic
    /\ Len(stack) < index
    /\ Top = name

Enter(name) ==
    /\ index' = index + 1
    /\ stack' = Append(stack, name)

\* gin.Logger up to its c.Next()
GinLoggerEnter ==
    /\ Calling("gin.Logger")
    /\ Enter("gin.Logger")
    /\ UNCHANGED <<bootVars, pc, served, pastFaults, reqHeader, steps, keys, errors,
                   respTrace, w, traceID, panicking, fault, reqLog>>

\* gin.Recovery up to its c.Next()
GinRecoveryEnter ==
    /\ Calling("gin.Recovery")
    /\ Enter("gin.Recovery")
    /\ UNCHANGED <<bootVars, pc, served, pastFaults, reqHeader, steps, keys, errors,
                   respTrace, w, traceID, panicking, fault, reqLog>>

\* ErrorHandlerMiddleware up to c.Next(): the deferred recovery is set.
ErrorHandlerEnter ==
    /\ Calling("ErrorHandlerMiddleware")
    /\ Enter("ErrorHandlerMiddleware")
    /\ UNCHANGED <<bootVars, pc, served, pastFaults, reqHeader, steps, keys, errors,
                   respTrace, w, traceID, panicking, fault, reqLog>>

\* requestLoggingMiddleware up to c.Next()
RequestLoggingEnter ==
    /\ Calling("requestLoggingMiddleware")
    /\ \E gen \in GeneratedIDs :
         /\ traceID' = TraceIDFor(reqHeader, gen)
         /\ keys' = StringKey(TraceIDFor(reqHeader, gen))
         /\ respTrace' = TraceIDFor(reqHeader, gen)
    /\ Enter("requestLoggingMiddleware")
    /\ UNCHANGED <<bootVars, pc, served, pastFaults, reqHeader, steps, errors, w,
                   panicking, fault, reqLog>>

\* The route handler is called.
HandlerEnter ==
    /\ Calling("handler")
    /\ Enter("handler")
    /\ UNCHANGED <<bootVars, pc, served, pastFaults, reqHeader, steps, keys, errors,
                   respTrace, w, traceID, panicking, fault, reqLog>>

InHandler ==
    /\ pc = "run"
    /\ panicking = NoPanic
    /\ Top = "handler"

\* The route handler calls c.JSON(status, gin.H{...}).
HandlerJSON ==
    /\ InHandler
    /\ steps < MaxHandlerSteps
    /\ \E status \in HandlerStatuses :
         w' = JSON(w, respTrace, status, HandlerDoc(status))
    /\ steps' = steps + 1
    /\ UNCHANGED <<bootVars, pc, served, pastFaults, reqHeader, index, stack, keys,
                   errors, respTrace, traceID, panicking, fault, reqLog>>

\* The route handler calls c.Error(err).
HandlerError ==
    /\ InHandler
    /\ steps < MaxHandlerSteps
    /\ \E e \in RecordedErrors : errors' = Append(errors, e)
    /\ steps' = steps + 1
    /\ UNCHANGED <<bootVars, pc, served, pastFaults, reqHeader, index, stack, keys,
                   respTrace, w, traceID, panicking, fault, reqLog>>

\* The route handler panics.
HandlerPanic ==
    /\ InHandler
    /\ steps < MaxHandlerSteps
    /\ panicking' = "handler panic"
    /\ fault' = "handler"
    /\ pastFaults' = pastFaults \cup {"handler"}
    /\ steps' = steps + 1
    /\ UNCHANGED <<bootVars, pc, served, reqHeader, index, stack, keys, errors,
                   respTrace, w, traceID, reqLog>>

\* The route handler returns.
HandlerReturn ==
    /\ InHandler
    /\ stack' = Pop(stack)
    /\ UNCHANGED <<bootVars, pc, served, pastFaults, reqHeader, index, steps, keys,
                   errors, respTrace, w, traceID, panicking, fault, reqLog>>

\* A panic leaves a frame that defers nothing: the route handler's, then
\* requestLoggingMiddleware's, whose code after c.Next() is skipped.
Unwind ==
    /\ pc = "run"
    /\ panicking # NoPanic
    /\ Top \in {"handler", "requestLoggingMiddleware"}
    /\ stack' = Pop(stack)
    /\ UNCHANGED <<bootVars, pc, served, pastFaults, reqHeader, index, steps, keys,
                   errors, respTrace, w, traceID, panicking, fault, reqLog>>

\* requestLoggingMiddleware after c.Next(): slog.Info("HTTP request", ...)
RequestLoggingAfterNext ==
    /\ Returned("requestLoggingMiddleware")
    /\ reqLog' = Append(reqLog, RequestRecord(w.status, traceID))
    /\ stack' = Pop(stack)
    /\ UNCHANGED <<bootVars, pc, served, pastFaults, reqHeader, index, steps, keys,
                   errors, respTrace, w, traceID, panicking, fault>>

\* ErrorHandlerMiddleware after c.Next(), no error recorded.
ErrorHandlerPassThrough ==
    /\ Returned("ErrorHandlerMiddleware")
    /\ Len(errors) = 0
    /\ stack' = Pop(stack)
    /\ UNCHANGED <<bootVars, pc, served, pastFaults, reqHeader, index, steps, keys,
                   errors, respTrace, w, traceID, panicking, fault, reqLog>>

\* ErrorHandlerMiddleware after c.Next(), an error recorded: handleError(c).
ErrorHandlerHandleError ==
    /\ Returned("ErrorHandlerMiddleware")
    /\ Len(errors) > 0
    /\ ~handleErrorPanics(errors, keys)
    /\ reqLog' = Append(reqLog, handleErrorLog(errors))
    /\ w' = handleError(w, respTrace, errors, keys)
    /\ stack' = Pop(stack)
    /\ UNCHANGED <<bootVars, pc, served, pastFaults, reqHeader, index, steps, keys,
                   errors, respTrace, traceID, panicking, fault>>

\* handleError(c) panics before it logs or writes anything.
ErrorHandlerHandleErrorPanic ==
    /\ Returned("ErrorHandlerMiddleware")
    /\ Len(errors) > 0
    /\ handleErrorPanics(errors, keys)
    /\ panicking' = "nil pointer dereference"
    /\ fault' = "handleError"
    /\ pastFaults' = pastFaults \cup {"handleError"}
    /\ UNCHANGED <<bootVars, pc, served, reqHeader, index, stack, steps, keys, errors,
                   respTrace, w, traceID, reqLog>>

\* A deferred recovery that lets the panic go on.
ErrorHandlerNoRecover ==
    /\ pc = "run"
    /\ panicking # NoPanic
    /\ Top = "ErrorHandlerMiddleware"
    /\ stack' = Pop(stack)
    /\ UNCHANGED <<bootVars, pc, served, pastFaults, reqHeader, index, steps, keys,
                   errors, respTrace, w, traceID, panicking, fault, reqLog>>

\* ErrorHandlerMiddleware's deferred function with a panic in flight:
\* recover(), logger.Error("panic recovered"), c.JSON(500, ...).
ErrorHandlerRecover ==
    /\ pc = "run"
    /\ panicking # NoPanic
    /\ Top = "ErrorHandlerMiddleware"
    /\ ~TraceIDAssertionFails(keys)
    /\ reqLog' = Append(reqLog,
                        [msg |-> "panic recovered", level |-> "ERROR",
                         status |-> 0, trace_id |-> "", text |-> panicking])
    /\ w' = JSON(w, respTrace, StatusInternalServerError,
                 RecoveryResponse(keys))
    /\ panicking' = NoPanic
    /\ stack' = Pop(stack)
    /\ UNCHANGED <<bootVars, pc, served, pastFaults, reqHeader, index, steps, keys,
                   errors, respTrace, traceID, fault>>

\* gin.Recovery after c.Next()
GinRecoveryAfterNext ==
    /\ Returned("gin.Recovery")
    /\ stack' = Pop(stack)
    /\ UNCHANGED <<bootVars, pc, served, pastFaults, reqHeader, index, steps, keys,
                   errors, respTrace, w, traceID, panicking, fault, reqLog>>

\* gin.Logger after c.Next()
GinLoggerAfterNext ==
    /\ Returned("gin.Logger")
    /\ stack' = Pop(stack)
    /\ UNCHANGED <<bootVars, pc, served, pastFaults, reqHeader, index, steps, keys,
                   errors, respTrace, w, traceID, panicking, fault, reqLog>>

\* The chain has returned to engine.ServeHTTP: the header is flushed if
\* nothing was written, and the response is complete.
Finish ==
    /\ pc = "run"
    /\ panicking = NoPanic
    /\ stack = << >>
    /\ index = Len(HandlersChain)
    /\ w' = WriteHeaderNow(w, respTrace)
    /\ pc' = "done"
    /\ served' = served + 1
    /\ UNCHANGED <<bootVars, pastFaults, reqHeader, index, stack, steps, keys, errors,
                   respTrace, traceID, panicking, fault, reqLog>>

Next ==
    \/ Accept
    \/ GinLoggerEnter
    \/ GinRecoveryEnter
    \/ ErrorHandlerEnter
    \/ RequestLoggingEnter
    \/ HandlerEnter
    \/ HandlerJSON
    \/ HandlerError
    \/ HandlerPanic
    \/ HandlerReturn
    \/ Unwind
    \/ RequestLoggingAfterNext
    \/ ErrorHandlerPassThrough
    \/ ErrorHandlerHandleError
    \/ ErrorHandlerHandleErrorPanic
    \/ ErrorHandlerRecover
    \/ GinRecoveryAfterNext
    \/ GinLoggerAfterNext
    \/ Finish

Spec == Init /\ [][Next]_vars

\* ------------------------------------------------------- main's start-up
\* The process starts in some environment, before config.Load().
BootInit ==
    /\ pc = "idle"
    /\ served = 0
    /\ pastFaults = {}
    /\ reqHeader = ""
    /\ index = 0
    /\ stack = << >>
    /\ steps = 0
    /\ keys = NoKey
    /\ errors = << >>
    /\ respTrace = ""
    /\ w = NewWriter
    /\ traceID = ""
    /\ panicking = NoPanic
    /\ fault = "none"
    /\ reqLog = << >>
    /\ stage = "start"
    /\ env \in [LOG_LEVEL : EnvLevels, LOG_FORMAT : EnvFormats]
    /\ cfg = [LogLevel |-> "", LogFormat |-> ""]
    /\ logger = DefaultLogger
    /\ sink = {}

\* cfg := config.Load()
LoadConfig ==
    /\ stage = "start"
    /\ cfg' = Load(env)
    /\ stage' = "loaded"
    /\ UNCHANGED <<requestVars, env, logger, sink>>

\* setupLogger(cfg.Observability.LogLevel, cfg.Observability.LogFormat)
SetupLogger ==
    /\ stage = "loaded"
    /\ logger' = setupLogger(cfg.LogLevel, cfg.LogFormat)
    /\ stage' = "ready"
    /\ UNCHANGED <<requestVars, env, cfg, sink>>

\* A slog call whose severity the logger lets through.
LogWritten ==
    /\ stage = "ready"
    /\ \E severity \in Severities :
         /\ Enabled(logger, severity)
         /\ sink' = sink \cup {severity}
    /\ UNCHANGED <<requestVars, stage, env, cfg, logger>>

\* A slog call below the logger's minimum level: nothing is written.
LogDropped ==
    /\ stage = "ready"
    /\ \E severity \in Severities : ~Enabled(logger, severity)
    /\ UNCHANGED vars

BootNext ==
    \/ LoadConfig
    \/ SetupLogger
    \/ LogWritten
    \/ LogDropped

BootSpec == BootInit /\ [][BootNext]_vars

\* ------------------------------------------------------------ the claims
Envelopes == {i \in DOMAIN w.body : w.body[i].kind = "envelope"}
DataDocs == {i \in DOMAIN w.body : w.body[i].kind = "data"}
RequestRecords == {i \in DOMAIN reqLog : reqLog[i].msg = "HTTP request"}
InStack(name) == \E i \in DOMAIN stack : stack[i] = name

\* C1: a request whose handler panicked, at any point of its handling, gets
\* status 500 and one envelope with error INTERNAL_ERROR, statusCode 500 and
\* the request's trace identifier.
C1_PanicGets500 ==
    (pc = "done" /\ fault = "handler") =>
        /\ w.sentStatus = StatusInternalServerError
        /\ Len(w.body) = 1
        /\ w.body[1].kind = "envelope"
        /\ w.body[1].error = "INTERNAL_ERROR"
        /\ w.body[1].statusCode = StatusInternalServerError
        /\ w.body[1].traceId = traceID

\* C2: whatever panics, in a route handler or in handleError, the panic never
\* gets past ErrorHandlerMiddleware, the request in progress can always go
\* on, every completed request has its response, and the process takes the
\* next request.
C2_ProcessSurvives ==
    /\ panicking # NoPanic => InStack("ErrorHandlerMiddleware")
    /\ pc = "run" => ENABLED Next
    /\ pc = "done" => (panicking = NoPanic /\ stack = << >> /\ w.written)
    /\ (pc = "done" /\ served < MaxRequests) => ENABLED Accept

\* C2's case: after a request whose handler panicked and one whose
\* handleError panicked, a third request is served normally.
C2_Witness ==
    /\ pc = "done"
    /\ served = 3
    /\ pastFaults = {"handler", "handleError"}
    /\ fault = "none"
    /\ w.sentStatus = StatusOK
    /\ Len(w.body) = 1

\* C3: when the last recorded error is an AppError and the handler returned,
\* the response ends with that error's envelope, and the HTTP status line,
\* the envelope's statusCode and the AppError's StatusCode are equal.
C3_LastAppErrorRendered ==
    (pc = "done" /\ fault = "none" /\ errors # << >>
       /\ Last(errors).kind = "app") =>
        /\ w.body # << >>
        /\ Last(w.body) =
             ErrorResponse(Last(errors).app.Code, Last(errors).app.Message,
                           Last(errors).app.StatusCode, traceID,
                           Last(errors).app.Details)
        /\ w.sentStatus = Last(w.body).statusCode
        /\ w.sentStatus = Last(errors).app.StatusCode

\* C4: when the last recorded error is not an AppError, the status is 500 and
\* the body is exactly the generic envelope, which does not depend on the
\* error's text.
C4_UnknownErrorGeneric ==
    (pc = "done" /\ errors # << >> /\ Last(errors).kind = "plain") =>
        /\ w.sentStatus = StatusInternalServerError
        /\ w.body = <<ErrorResponse("INTERNAL_ERROR",
                                    "An unexpected error occurred",
                                    StatusInternalServerError, traceID,
                                    NoDetails)>>

\* C5: for a request with a non-empty X-Trace-ID header v, the response
\* header X-Trace-ID is v and every envelope written for it has traceId v.
C5_TraceRoundTrip ==
    reqHeader # "" =>
        /\ w.written => w.sentTrace = reqHeader
        /\ pc = "done" => w.sentTrace = reqHeader
        /\ \A i \in Envelopes : w.body[i].traceId = reqHeader

\* C5's case: a later request of the process, carrying abc123, has got an
\* envelope and its response header.
C5_Witness ==
    /\ pc = "done"
    /\ served >= 2
    /\ reqHeader = "abc123"
    /\ w.sentTrace = "abc123"
    /\ Envelopes # {}
    /\ pastFaults # {}

\* C6: a request whose handler did something and wrote at most one document
\* itself gets one status line and exactly one document: no envelope on top
\* of what the handler wrote.
C6_OneResponse ==
    (pc = "done" /\ steps > 0 /\ Cardinality(DataDocs) <= 1) =>
        /\ w.written
        /\ Len(w.body) = 1

\* C7: every completed request has exactly one "HTTP request" log record.
C7_OneRequestRecord ==
    pc = "done" => Cardinality(RequestRecords) = 1

\* C8: the status of a request's "HTTP request" log record is the status
\* sent to the client.
C8_LoggedStatusIsSent ==
    pc = "done" => \A i \in RequestRecords : reqLog[i].status = w.sentStatus

\* C9: every AppError made by a factory has a non-empty Code, a non-empty
\* Message and one of the five (Code, StatusCode) pairs.
CodeTable ==
    {<<"VALIDATION_ERROR", 400>>, <<"NOT_FOUND", 404>>, <<"CONFLICT", 409>>,
     <<"UNAUTHORIZED", 401>>, <<"INTERNAL_ERROR", 500>>}

C9_FactoryInvariant ==
    \A i \in DOMAIN errors :
        errors[i].kind = "app" =>
            /\ errors[i].app.Code # ""
            /\ errors[i].app.Message # ""
            /\ <<errors[i].app.Code, errors[i].app.StatusCode>> \in CodeTable

\* C10: ErrorHandlerMiddleware is the first handler of the chain to run for
\* a request, and a panic downstream of it is inside its boundary.
C10_BoundaryFirst ==
    /\ stack # << >> => stack[1] = "ErrorHandlerMiddleware"
    /\ panicking # NoPanic => InStack("ErrorHandlerMiddleware")

\* The severity each documented LogLevel names.
LevelNamed(name) ==
    CASE name = "debug" -> "DEBUG"
      [] name = "info" -> "INFO"
      [] name = "warn" -> "WARN"
      [] name = "error" -> "ERROR"

\* C11: once setupLogger has run, for a LogLevel of debug, info, warn or
\* error the logger's minimum level is the level named, and the encoding is
\* JSON when LogFormat is "json" and text otherwise.
C11_LoggerFollowsConfig ==
    stage = "ready" =>
        /\ cfg.LogLevel \in {"debug", "info", "warn", "error"} =>
               logger.level = LevelNamed(cfg.LogLevel)
        /\ logger.encoding = (IF cfg.LogFormat = "json" THEN "json" ELSE "text")

====
